---- MODULE Spec2Model ----
(***************************************************************************)
(* Model of the Prometheus datasource                                      *)
(* (public/app/plugins/datasource/prometheus/datasource.ts).               *)
(*                                                                         *)
(* Times (start, end, range) are whole seconds, as getPrometheusTime       *)
(* returns them (Math.ceil).  Intervals and steps are carried in           *)
(* milliseconds, the finest unit kbn.interval_to_seconds resolves, so that *)
(* a sub-second interval such as '200ms' (0.2 s in the code) is an integer *)
(* here.  A JavaScript value whose type the code tests is a tagged record  *)
(* (JsUndef, JsStr, JsNum, JsObj).                                         *)
(***************************************************************************)
EXTENDS Integers, Sequences, FiniteSets, TLC

\* ------------------------------------------------------------------------
\* Program constants
\* ------------------------------------------------------------------------

\* "Prometheus will drop queries that might return more than 11000 data points."
MaxPoints == 11000

\* Milliseconds per second (the unit of interval * 1000 in createQuery).
MsPerSec == 1000

\* ------------------------------------------------------------------------
\* Bounds of the model
\* ------------------------------------------------------------------------

\* alignRange is called directly with start, end in 0..MaxT and step in 1..MaxStep.
MaxT == 12
MaxStep == 5

\* createQuery: start in 0..MaxStart seconds; the range spans up to
\* MaxK * MaxPoints seconds (+/- 1), or is short, or is inverted.
MaxStart == 2
MaxK == 2
\* the interval factor of a target is in 0..MaxFactor (0: not set)
MaxFactor == 2

\* annotationQuery: a response holds at most MaxSeries series and at most
\* MaxSamples samples in all.
MaxSeries == 2
MaxSamples == 3

\* performSuggestQuery: the clock advances MaxTicks times at most, and at most
\* MaxInFlight metric-name requests are in flight at once.
MaxTicks == 4
MaxInFlight == 2

\* query: options.targets holds at most MaxTargets targets
MaxTargets == 2

\* JavaScript values: undefined, a string, a number, an object with an
\* error property (the body of an error response).
JsUndef == [t |-> "undefined"]
JsStr(x) == [t |-> "string", s |-> x]
JsNum(n) == [t |-> "number", n |-> n]
JsObj(e) == [t |-> "object", error |-> e]

\* The truthiness of a value: if (x), x || y
Truthy(x) ==
    CASE x.t = "undefined" -> FALSE
      [] x.t = "string"    -> x.s # ""
      [] x.t = "number"    -> x.n # 0
      [] OTHER             -> TRUE

Max2(a, b) == IF a >= b THEN a ELSE b

\* Math.ceil(a / b) for b > 0
CeilDiv(a, b) == -((-a) \div b)

\* ------------------------------------------------------------------------
\* Pure functions
\* ------------------------------------------------------------------------

\* Math.floor(x / step) * step
FloorTo(x, step) == (x \div step) * step

\* alignRange with a fault: it rounds to the nearest multiple, not down
alignRangeNearest(start, end, step) ==
    [start |-> FloorTo(start + step \div 2, step),
     end   |-> FloorTo(end + step \div 2, step)]

\* export function alignRange(start, end, step)
alignRange(start, end, step) ==
    [start |-> FloorTo(start, step), end |-> FloorTo(end, step)]

\* adjustInterval(interval, minInterval, range, intervalFactor); interval and
\* minInterval in milliseconds, range in seconds, the result in milliseconds.
\*   range / intervalFactor / interval > 11000, interval in seconds
\*     <=>  range * 1000 > 11000 * intervalFactor * intervalMs
adjustInterval(interval, minInterval, range, intervalFactor) ==
    LET calibrated ==
            IF interval # 0 /\ range * MsPerSec > MaxPoints * intervalFactor * interval
            THEN CeilDiv(range, intervalFactor * MaxPoints) * MsPerSec
            ELSE interval
    IN Max2(Max2(calibrated * intervalFactor, minInterval), 1 * MsPerSec)

\* The intervals kbn.interval_to_seconds can hand to createQuery, in ms:
\* '0s', '200ms', '1s', '1500ms', '2s'.
Intervals == {0, 200, 1000, 1500, 2000}

\* target.interval ("Min step"): <<>> when not set (or empty), else <<ms>>
MinIntervals == {<<>>} \cup {<<i>> : i \in Intervals}

\* end - start of the ranges createQuery is given: around the multiples of
\* MaxPoints seconds, short ones, and inverted ones (end < start).
Ranges == {k * MaxPoints + d : k \in 0..MaxK, d \in {-1, 0, 1}} \cup {2, 3, -3}

\* The numeric part of createQuery(target, options, start, end): the query's
\* step (ms) and its aligned start and end (ms).
createQueryStep(targetInterval, targetFactor, optInterval, start, end) ==
    LET range == end - start
        interval == optInterval
        minInterval == IF targetInterval = <<>> THEN optInterval ELSE targetInterval[1]
        intervalFactor == IF targetFactor = 0 THEN 1 ELSE targetFactor
    IN adjustInterval(interval, minInterval, range, intervalFactor)

createQueryRange(step, start, end) == alignRange(start * MsPerSec, end * MsPerSec, step)

\* ------------------------------------------------------------------------
\* handleErrors
\* ------------------------------------------------------------------------

GenericMessage == "Unknown error during query transaction. Please check JS console logs."

\* The errors the HTTP layer rejects a request with: a bare string, or an
\* object whose properties cancelled, data, message, status and statusText
\* may each be missing.
ErrData == {JsUndef, JsStr(""), JsStr("bad data"),
            JsObj(JsUndef), JsObj(JsStr("")), JsObj(JsStr("query error"))}
ErrMessages == {JsUndef, JsStr(""), JsStr("Bad Gateway")}
ErrObjects ==
    [t : {"object"}, cancelled : BOOLEAN, data : ErrData, message : ErrMessages,
     status : {JsUndef, JsNum(502)}, statusText : {JsUndef, JsStr("Bad Gateway")}]
ErrStrings == {JsStr(""), JsStr("boom")}
Errors == ErrObjects \cup ErrStrings

\* err.<property>: undefined on a string
ErrProp(err, name) == IF err.t = "object" THEN err[name] ELSE JsUndef
ErrCancelled(err) == err.t = "object" /\ err.cancelled

\* safeStringifyValue(value): '' for a falsy value, else JSON.stringify(value),
\* which puts a string in double quotes
safeStringifyValue(value) ==
    IF ~Truthy(value) THEN "" ELSE "\"" \o value.s \o "\""

\* The message handleErrors gives the error it throws (the if / else-if chain)
errorMessage(err) ==
    IF Truthy(ErrProp(err, "data"))
    THEN IF ErrProp(err, "data").t = "string" THEN ErrProp(err, "data").s
         ELSE IF Truthy(ErrProp(err, "data").error)
         THEN safeStringifyValue(ErrProp(err, "data").error)
         ELSE GenericMessage
    ELSE IF Truthy(ErrProp(err, "message")) THEN ErrProp(err, "message").s
    ELSE IF err.t = "string" THEN err.s
    ELSE GenericMessage

\* handleErrors with a fault: every error is returned, as a cancelled one is
handleErrorsSwallow(err, target) == [kind |-> "returned", value |-> err]

\* handleErrors(err, target): what the catch handler does: it returns err
\* (the promise resolves with it) or throws a DataQueryError (it rejects)
handleErrors(err, target) ==
    IF ErrCancelled(err)
    THEN [kind |-> "returned", value |-> err]
    ELSE [kind |-> "thrown",
          error |-> [message |-> errorMessage(err),
                     refId |-> target.refId,
                     status |-> ErrProp(err, "status"),
                     statusText |-> ErrProp(err, "statusText")]]

\* ------------------------------------------------------------------------
\* performTimeSeriesQuery, performInstantQuery
\* ------------------------------------------------------------------------

\* The call of _request in performTimeSeriesQuery(query, start, end)
timeSeriesRequest(query, start, end) ==
    [url |-> "/api/v1/query_range", requestId |-> query.requestId,
     query |-> query.expr, start |-> start, end |-> end, step |-> query.step]

\* The call of _request in performInstantQuery(query, time)
instantRequest(query, time) ==
    [url |-> "/api/v1/query", requestId |-> query.requestId,
     query |-> query.expr, time |-> time]

\* InvalidTimeRange with a fault: an empty range (start = end) is refused too
InvalidTimeRangeInclusive(start, end) == start >= end

\* if (start > end) throw { message: 'Invalid time range' }
InvalidTimeRange(start, end) == start > end

InvalidTimeRangeError == [message |-> "Invalid time range"]

\* The responses of the backend to a query: a status and the result's series
\* (named here by tokens)
Responses == {[status |-> "success", result |-> r] : r \in {<<>>, <<"s1">>, <<"s1", "s2">>}}

\* _request(...).catch(err => this.handleErrors(err, query)): how the promise
\* of a request settles when the request fails with err
settleFailure(err, query) ==
    LET h == handleErrors(err, query)
    IN IF h.kind = "returned"
       THEN [pc |-> "resolved", value |-> h.value]
       ELSE [pc |-> "rejected", error |-> h.error]

\* ... and when it succeeds with response
settleSuccess(response) == [pc |-> "resolved", value |-> response]

\* ------------------------------------------------------------------------
\* annotationQuery: from a query_range response to annotation events
\* ------------------------------------------------------------------------

\* The sample values (value[1], strings) a response may carry.
Samples == {"-0.5", "0.5", "1", "1.5", "NaN"}

\* A JavaScript number: NaN, or the integer v (in the unit its user states).
NaN == [nan |-> TRUE, v |-> 0]
Num(n) == [nan |-> FALSE, v |-> n]

\* parseFloat(value[1]): the number in halves; NaN when the string is none
parseFloat(str) ==
    CASE str = "-0.5" -> Num(-1)
      [] str = "0.5"  -> Num(1)
      [] str = "1"    -> Num(2)
      [] str = "1.5"  -> Num(3)
      [] OTHER        -> NaN

\* Math.floor of a number given in halves: the result in units
MathFloor(x) == IF x.nan THEN NaN ELSE Num(x.v \div 2)

\* Math.floor(parseFloat(value[1]))
timestampValueOf(value) == MathFloor(parseFloat(value[2]))

\* dupKey with a fault: the property name is the sample as parsed, not floored
dupKeyUnfloored(value) == parseFloat(value[2])

\* The property name under which dupCheck records a sample: the floored value
\* (dupCheck[timestampValue]).
dupKey(value) == timestampValueOf(value)

\* The loop over series.values, from sample j on: dupCheck is the set of
\* property names set so far, events the events pushed so far.  A value is
\* <<value[0], value[1]>>: the sample's time in seconds and its string.
RECURSIVE seriesLoop(_, _, _, _, _, _)
seriesLoop(useValueForTime, metric, values, j, dupCheck, events) ==
    IF j > Len(values) THEN events
    ELSE LET value == values[j]
             valueIsTrue == value[2] = "1"
         IN IF valueIsTrue \/ useValueForTime
            THEN IF useValueForTime
                 THEN IF dupKey(value) \in dupCheck
                      THEN seriesLoop(useValueForTime, metric, values, j + 1,
                                      dupCheck, events)
                      ELSE seriesLoop(useValueForTime, metric, values, j + 1,
                                      dupCheck \cup {dupKey(value)},
                                      Append(events, [metric |-> metric,
                                                      time |-> timestampValueOf(value)]))
                 ELSE seriesLoop(useValueForTime, metric, values, j + 1, dupCheck,
                                 Append(events, [metric |-> metric,
                                                 time |-> Num(value[1] * MsPerSec)]))
            ELSE seriesLoop(useValueForTime, metric, values, j + 1, dupCheck, events)

\* _.each(results.data.data.result, series => ...): the events of series i
\* on, appended to eventList.  Series i carries metric i (the title, text and
\* tags of its events are rendered from it); dupCheck starts empty per series.
RECURSIVE annotationEvents(_, _, _, _)
annotationEvents(useValueForTime, result, i, eventList) ==
    IF i > Len(result) THEN eventList
    ELSE annotationEvents(useValueForTime, result, i + 1,
                          seriesLoop(useValueForTime, i, result[i], 1, {}, eventList))

\* The cuts that split n samples into k series: cuts[i] is the number of
\* samples in the series 1..i
Cuts(n, k) ==
    {c \in [1..k -> 0..n] :
        /\ \A i \in 1..(k - 1) : c[i] <= c[i + 1]
        /\ (k = 0 => n = 0)
        /\ (k > 0 => c[k] = n)}

\* results.data.data.result: the samples f split at cuts into series; the
\* j-th value of a series is <<j, its sample>> (time j seconds)
ResultOf(f, cuts) ==
    [i \in DOMAIN cuts |->
        LET from == IF i = 1 THEN 0 ELSE cuts[i - 1]
        IN [j \in 1..(cuts[i] - from) |-> <<j, f[from + j]>>]]

\* ------------------------------------------------------------------------
\* performSuggestQuery and the metric-name cache
\* ------------------------------------------------------------------------

\* expire: Date.now() + 60 * 1000
CacheTtlMs == 60 * MsPerSec

\* The clock (Date.now()) is observed every half of the cache's lifetime
TickMs == CacheTtlMs \div 2

\* Metric names and queries are strings, here sequences of characters
MetricUp == <<"u", "p">>
MetricCpu == <<"c", "p", "u">>
NameLists == {<<>>, <<MetricUp>>, <<MetricUp, MetricCpu>>}
SuggestQueries == {<<"u">>, <<"p">>}

\* String.prototype.indexOf: the first (0-based) position of q in str, or -1
indexOf(str, q) ==
    LET at == {i \in 0..(Len(str) - Len(q)) : SubSeq(str, i + 1, i + Len(q)) = q}
    IN IF at = {} THEN -1 ELSE CHOOSE i \in at : \A h \in at : i <= h

\* _.filter(names, metricName => metricName.indexOf(query) !== 1)
RECURSIVE filterNames(_, _)
filterNames(names, query) ==
    IF names = <<>> THEN <<>>
    ELSE IF indexOf(Head(names), query) # 1
         THEN <<Head(names)>> \o filterNames(Tail(names), query)
         ELSE filterNames(Tail(names), query)

NoCache == [set |-> FALSE]

\* cacheValid with a fault: an entry that expires now is still served
cacheValidInclusive(cache, metricsNameCache, now) ==
    cache /\ metricsNameCache.set /\ metricsNameCache.expire >= now

\* cache && this.metricsNameCache && this.metricsNameCache.expire > Date.now()
cacheValid(cache, metricsNameCache, now) ==
    cache /\ metricsNameCache.set /\ metricsNameCache.expire > now

\* performSuggestQuery(query, cache), up to its return: either the answer from
\* the cache and no request, or one metadata request and no answer yet
performSuggestQuery(query, cache, metricsNameCache, now) ==
    IF cacheValid(cache, metricsNameCache, now)
    THEN [answered |-> TRUE, answer |-> filterNames(metricsNameCache.data, query),
          requests |-> <<>>]
    ELSE [answered |-> FALSE, answer |-> <<>>,
          requests |-> <<[url |-> "/api/v1/label/__name__/values", query |-> query]>>]

\* the then-handler of the metadata request: the new cache
suggestCache(names, now) == [set |-> TRUE, data |-> names, expire |-> now + CacheTtlMs]

\* a sequence without its i-th element
RemoveAt(seq, i) == SubSeq(seq, 1, i - 1) \o SubSeq(seq, i + 1, Len(seq))

\* ------------------------------------------------------------------------
\* query: prepareTargets, createQuery, processResult
\* ------------------------------------------------------------------------

\* The targets of options.targets, but for their refId: a panel's range and
\* instant targets, an Explore target (whatever instant and format it holds
\* are overwritten), a hidden panel target, an Explore target without expr.
\* requestId is not set on a target: "undefined" once it is made a string.
TargetKinds ==
    {[expr |-> "up", hide |-> FALSE, context |-> "panel", instant |-> FALSE,
      format |-> "time_series", valueWithRefId |-> FALSE, maxDataPoints |-> 500,
      requestId |-> "undefined"],
     [expr |-> "up", hide |-> FALSE, context |-> "panel", instant |-> TRUE,
      format |-> "table", valueWithRefId |-> FALSE, maxDataPoints |-> 500,
      requestId |-> "undefined"],
     [expr |-> "up", hide |-> FALSE, context |-> "explore", instant |-> TRUE,
      format |-> "heatmap", valueWithRefId |-> FALSE, maxDataPoints |-> 500,
      requestId |-> "undefined"],
     [expr |-> "up", hide |-> TRUE, context |-> "panel", instant |-> FALSE,
      format |-> "time_series", valueWithRefId |-> FALSE, maxDataPoints |-> 500,
      requestId |-> "undefined"],
     [expr |-> "", hide |-> FALSE, context |-> "explore", instant |-> FALSE,
      format |-> "time_series", valueWithRefId |-> FALSE, maxDataPoints |-> 500,
      requestId |-> "undefined"]}

\* the refId of the i-th target of a panel
RefIdNames == <<"A", "B", "C", "D", "E", "F">>

\* options.panelId, as it is concatenated into a requestId
PanelId == "1"

\* options.interval of a query: '5s'
QueryInterval == 5 * MsPerSec

\* <<start, end>> of options.range, in seconds, as getPrometheusTime gives
\* them: a valid range, an inverted range whose ends align to the same step,
\* an inverted range that stays inverted
QueryRanges == {<<3, 7>>, <<3, 0>>, <<7, 3>>}

\* PromContext.Explore
Explore == "explore"

\* createQuery(target, options, start, end): adhoc filters and template
\* variables leave the expression of these targets as it is
createQuery(target, start, end) ==
    LET step == createQueryStep(<<>>, 0, QueryInterval, start, end)
        adjusted == createQueryRange(step, start, end)
    IN [instant |-> target.instant, step |-> step, expr |-> target.expr,
        requestId |-> PanelId \o target.refId, refId |-> target.refId,
        start |-> adjusted.start, end |-> adjusted.end]

\* instantTargetOf with a fault: the clone keeps the refId and requestId of
\* the range target
instantTargetNoSuffix(target) ==
    [f \in DOMAIN target \ {"maxDataPoints"} |->
        CASE f = "format"         -> "table"
          [] f = "instant"        -> TRUE
          [] f = "valueWithRefId" -> TRUE
          [] OTHER                -> target[f]]

\* the instant clone prepareTargets makes of an Explore target
instantTargetOf(target) ==
    [f \in DOMAIN target \ {"maxDataPoints"} |->
        CASE f = "format"         -> "table"
          [] f = "instant"        -> TRUE
          [] f = "valueWithRefId" -> TRUE
          [] f = "requestId"      -> target.requestId \o "_instant"
          [] f = "refId"          -> target.refId \o "_instant"
          [] OTHER                -> target[f]]

\* the Explore target itself, as prepareTargets changes it
rangeTargetOf(target) == [target EXCEPT !.format = "time_series", !.instant = FALSE]

\* prepareTargets with a fault: a hidden target is not skipped
RECURSIVE prepareTargetsIgnoreHide(_, _, _, _, _)
prepareTargetsIgnoreHide(targets, i, start, end, acc) ==
    IF i > Len(targets) THEN acc
    ELSE LET target == targets[i]
         IN IF target.expr = ""
            THEN prepareTargetsIgnoreHide(targets, i + 1, start, end, acc)
            ELSE IF target.context = Explore
            THEN LET range == rangeTargetOf(target)
                     instantTarget == instantTargetOf(range)
                 IN prepareTargetsIgnoreHide(targets, i + 1, start, end,
                        [queries |-> acc.queries \o <<createQuery(instantTarget, start, end),
                                                         createQuery(range, start, end)>>,
                         activeTargets |-> acc.activeTargets \o <<instantTarget, range>>])
            ELSE prepareTargetsIgnoreHide(targets, i + 1, start, end,
                        [queries |-> Append(acc.queries, createQuery(target, start, end)),
                         activeTargets |-> Append(acc.activeTargets, target)])

\* prepareTargets(options, start, end): the loop over options.targets from the
\* i-th on; acc holds queries and activeTargets so far
RECURSIVE prepareTargets(_, _, _, _, _)
prepareTargets(targets, i, start, end, acc) ==
    IF i > Len(targets) THEN acc
    ELSE LET target == targets[i]
         IN IF target.expr = "" \/ target.hide
            THEN prepareTargets(targets, i + 1, start, end, acc)
            ELSE IF target.context = Explore
            THEN LET range == rangeTargetOf(target)
                     instantTarget == instantTargetOf(range)
                 IN prepareTargets(targets, i + 1, start, end,
                        [queries |-> acc.queries \o <<createQuery(instantTarget, start, end),
                                                         createQuery(range, start, end)>>,
                         activeTargets |-> acc.activeTargets \o <<instantTarget, range>>])
            ELSE prepareTargets(targets, i + 1, start, end,
                        [queries |-> Append(acc.queries, createQuery(target, start, end)),
                         activeTargets |-> Append(acc.activeTargets, target)])

\* processResult with a fault: every response is transformed with the first
\* query and target
processResultFirst(response, queries, activeTargets, index) ==
    [k \in 1..Len(response.result) |->
        [series |-> response.result[k],
         format |-> activeTargets[1].format,
         step |-> queries[1].step,
         start |-> queries[1].start,
         end |-> queries[1].end,
         query |-> queries[1].expr,
         responseListLength |-> Len(queries),
         refId |-> activeTargets[1].refId,
         valueWithRefId |-> activeTargets[1].valueWithRefId]]

\* processResult(response, queries[index], activeTargets[index], queries.length):
\* the transformer yields one series per series of the result, made with the
\* transformer options
processResult(response, queries, activeTargets, index) ==
    [k \in 1..Len(response.result) |->
        [series |-> response.result[k],
         format |-> activeTargets[index].format,
         step |-> queries[index].step,
         start |-> queries[index].start,
         end |-> queries[index].end,
         query |-> queries[index].expr,
         responseListLength |-> Len(queries),
         refId |-> activeTargets[index].refId,
         valueWithRefId |-> activeTargets[index].valueWithRefId]]

\* The loop that issues the requests (_.map(queries, ...) in query, the for
\* loop of runObserverQueries), from the index-th query on: a range query
\* whose start is after its end throws and ends the loop
RECURSIVE issueQueries(_, _, _, _)
issueQueries(queries, index, end, issued) ==
    IF index > Len(queries) THEN [thrown |-> FALSE, issued |-> issued]
    ELSE LET query == queries[index]
         IN IF query.instant
            THEN issueQueries(queries, index + 1, end,
                              Append(issued, instantRequest(query, end)))
            ELSE IF InvalidTimeRange(query.start, query.end)
            THEN [thrown |-> TRUE, issued |-> issued]
            ELSE issueQueries(queries, index + 1, end,
                              Append(issued, timeSeriesRequest(query, query.start, query.end)))

\* observer && options.targets.filter(context === Explore).length === options.targets.length
observerPath(targets, observer) ==
    observer /\ \A i \in 1..Len(targets) : targets[i].context = Explore

\* response.cancelled ? ... : of a resolved value: a response carries no
\* cancelled property, a cancelled error does
IsCancelled(value) == "cancelled" \in DOMAIN value /\ value.cancelled

\* LoadingState
LoadingStateLoading == "Loading"
LoadingStateDone == "Done"

\* observerCalls with a fault: a cancelled response reaches the observer too
observerCallsUnfiltered(slot, queries, activeTargets, index) ==
    IF slot.pc = "resolved"
    THEN <<[key |-> "prometheus-" \o activeTargets[index].refId,
            state |-> IF queries[index].instant
                      THEN LoadingStateLoading ELSE LoadingStateDone,
            delta |-> IF IsCancelled(slot.value) THEN <<>>
                      ELSE processResult(slot.value, queries, activeTargets, index)]>>
    ELSE <<>>

\* The calls of the observer that the subscription of runObserverQueries makes
\* when the promise of request index settles as slot: single(), filter(not
\* cancelled), map(processResult), next
observerCalls(slot, queries, activeTargets, index) ==
    IF slot.pc = "resolved" /\ ~IsCancelled(slot.value)
    THEN <<[key |-> "prometheus-" \o activeTargets[index].refId,
            state |-> IF queries[index].instant
                      THEN LoadingStateLoading ELSE LoadingStateDone,
            delta |-> processResult(slot.value, queries, activeTargets, index)]>>
    ELSE <<>>

\* The then-handler of $q.all: the series of the responses that are not
\* cancelled, from the index-th on, appended to result
RECURSIVE allResult(_, _, _, _, _)
allResult(responseList, queries, activeTargets, index, result) ==
    IF index > Len(responseList) THEN result
    ELSE IF IsCancelled(responseList[index])
         THEN allResult(responseList, queries, activeTargets, index + 1, result)
         ELSE allResult(responseList, queries, activeTargets, index + 1,
                        result \o processResult(responseList[index], queries,
                                                activeTargets, index))

\* $q.all(allQueryPromise).then(...): the promise query returned, after the
\* promise of request index settled (slots are the promises of the requests):
\* it rejects with the first rejection, resolves when every request resolved
allPromise(promise, slots, queries, activeTargets, index) ==
    IF promise.pc # "pending" THEN promise
    ELSE IF slots[index].pc = "rejected"
    THEN [pc |-> "rejected", error |-> slots[index].error]
    ELSE IF \A i \in 1..Len(slots) : slots[i].pc = "resolved"
    THEN [pc |-> "resolved",
          data |-> allResult([i \in 1..Len(slots) |-> slots[i].value],
                             queries, activeTargets, 1, <<>>)]
    ELSE promise

\* ------------------------------------------------------------------------
\* State
\* ------------------------------------------------------------------------
VARIABLES
    al,     \* the last direct call of alignRange: its arguments and result
    cq,     \* the last call of createQuery: its numeric inputs and result
    req,    \* one call of performTimeSeriesQuery / performInstantQuery: its
            \* query, the request it issued, what the request met, its promise
    anno,   \* one call of annotationQuery: its annotation, the request it
            \* issued, the response, the promise and its event list
    now,              \* Date.now(), in ms
    metricsNameCache, \* this.metricsNameCache
    suggestInFlight,  \* the metadata requests of performSuggestQuery in flight
    suggestLast,      \* the last thing performSuggestQuery did: a call (with
                      \* the cache and clock it met), a response or a failure
    q,          \* one call of query: options.targets, the observer, the range,
                \* queries and activeTargets, the requests issued, who listens
    slots,      \* the promise of each request issued by query
    promise,    \* what query returned (a promise) or threw
    observed    \* per request issued by query, the calls of the observer

vars == <<al, cq, req, anno, now, metricsNameCache, suggestInFlight, suggestLast,
          q, slots, promise, observed>>
suggestVars == <<now, metricsNameCache, suggestInFlight, suggestLast>>
queryVars == <<q, slots, promise, observed>>

NoCall == [called |-> FALSE]
NoRequest == [pc |-> "idle"]
NoAnnotation == [pc |-> "idle"]

Init ==
    /\ al = NoCall
    /\ cq = NoCall
    /\ req = NoRequest
    /\ anno = NoAnnotation
    /\ now = 0
    /\ metricsNameCache = NoCache
    /\ suggestInFlight = <<>>
    /\ suggestLast = [kind |-> "none"]
    /\ q = [pc |-> "idle"]
    /\ slots = <<>>
    /\ promise = [pc |-> "none"]
    /\ observed = <<>>

\* alignRange(start, end, step), called on its own (it is exported)
AlignRange ==
    /\ al = NoCall /\ cq = NoCall
    /\ \E start \in 0..MaxT, end \in 0..MaxT, step \in 1..MaxStep :
        al' = [called |-> TRUE, start |-> start, end |-> end, step |-> step,
               aligned |-> alignRange(start, end, step)]
    /\ UNCHANGED <<cq, req, anno, suggestVars, queryVars>>

\* createQuery(target, options, start, end)
CreateQuery ==
    /\ al = NoCall /\ cq = NoCall
    /\ \E start \in 0..MaxStart, r \in Ranges, ti \in MinIntervals,
          tf \in 0..MaxFactor, oi \in Intervals :
        LET end == start + r
            step == createQueryStep(ti, tf, oi, start, end)
        IN cq' = [called |-> TRUE, start |-> start, end |-> end,
                  interval |-> oi, targetInterval |-> ti, intervalFactor |-> tf,
                  step |-> step, aligned |-> createQueryRange(step, start, end)]
    /\ UNCHANGED <<al, req, anno, suggestVars, queryVars>>

NextRange == AlignRange \/ CreateQuery

SpecRange == Init /\ [][NextRange]_vars

\* ------------------------------------------------------------------------
\* One request and its failure handling
\* ------------------------------------------------------------------------

\* The queries handed to the two perform functions
RefIds == {"A", "B", "A_instant"}
PerformQueries ==
    {[refId |-> r, requestId |-> "1" \o r, expr |-> "up", step |-> MsPerSec] : r \in RefIds}

\* performTimeSeriesQuery(query, start, end)
PerformTimeSeriesQuery ==
    /\ req.pc = "idle"
    /\ \E query \in PerformQueries, start \in 0..MaxStart, end \in 0..MaxStart :
         req' = IF InvalidTimeRange(start, end)
                THEN [pc |-> "thrown", query |-> query, start |-> start, end |-> end,
                      issued |-> <<>>, error |-> InvalidTimeRangeError]
                ELSE [pc |-> "pending", query |-> query, start |-> start, end |-> end,
                      issued |-> <<timeSeriesRequest(query, start, end)>>]
    /\ UNCHANGED <<al, cq, anno, suggestVars, queryVars>>

\* performInstantQuery(query, time)
PerformInstantQuery ==
    /\ req.pc = "idle"
    /\ \E query \in PerformQueries, time \in 0..MaxStart :
         req' = [pc |-> "pending", query |-> query, time |-> time,
                 issued |-> <<instantRequest(query, time)>>]
    /\ UNCHANGED <<al, cq, anno, suggestVars, queryVars>>

\* the request succeeds: the promise resolves with the response
RequestSucceeds ==
    /\ req.pc = "pending"
    /\ \E response \in Responses :
         req' = [query |-> req.query, issued |-> req.issued, met |-> "response",
                 response |-> response] @@ settleSuccess(response)
    /\ UNCHANGED <<al, cq, anno, suggestVars, queryVars>>

\* the request fails with err: the catch handler runs handleErrors
RequestFails ==
    /\ req.pc = "pending"
    /\ \E err \in Errors :
         req' = [query |-> req.query, issued |-> req.issued, met |-> "error",
                 err |-> err] @@ settleFailure(err, req.query)
    /\ UNCHANGED <<al, cq, anno, suggestVars, queryVars>>

NextErrors ==
    \/ PerformTimeSeriesQuery
    \/ PerformInstantQuery
    \/ RequestSucceeds
    \/ RequestFails

SpecErrors == Init /\ [][NextErrors]_vars

\* ------------------------------------------------------------------------
\* From createQuery to performTimeSeriesQuery
\* ------------------------------------------------------------------------

\* The query createQuery built in its last call: step, start and end in ms
createdQuery(refId) ==
    [refId |-> refId, requestId |-> PanelId \o refId, expr |-> "up",
     step |-> cq.step, start |-> cq.aligned.start, end |-> cq.aligned.end]

\* this.performTimeSeriesQuery(query, query.start, query.end) on the query
\* createQuery built
PerformCreatedQuery ==
    /\ cq # NoCall
    /\ req.pc = "idle"
    /\ \E refId \in {"A", "B"} :
         LET query == createdQuery(refId)
         IN req' = IF InvalidTimeRange(query.start, query.end)
                   THEN [pc |-> "thrown", query |-> query,
                         start |-> query.start, end |-> query.end,
                         issued |-> <<>>, error |-> InvalidTimeRangeError]
                   ELSE [pc |-> "pending", query |-> query,
                         start |-> query.start, end |-> query.end,
                         issued |-> <<timeSeriesRequest(query, query.start, query.end)>>]
    /\ UNCHANGED <<al, cq, anno, suggestVars, queryVars>>

NextValidity ==
    \/ AlignRange
    \/ CreateQuery
    \/ PerformTimeSeriesQuery
    \/ PerformCreatedQuery

SpecValidity == Init /\ [][NextValidity]_vars

\* ------------------------------------------------------------------------
\* annotationQuery
\* ------------------------------------------------------------------------

\* annotation.step || '60s', in ms
DefaultAnnotationStep == 60 * MsPerSec
\* const minStep = '1s'
AnnotationMinStep == 1 * MsPerSec

\* The query annotationQuery builds:
\* createQuery({ expr, interval: minStep, refId: 'X' }, { ...options, interval: step }, start, end)
annotationCreateQuery(expr, annStep, start, end) ==
    LET step == createQueryStep(<<AnnotationMinStep>>, 0,
                                IF annStep = <<>>
                                THEN DefaultAnnotationStep ELSE annStep[1],
                                start, end)
        adjusted == createQueryRange(step, start, end)
    IN [refId |-> "X", requestId |-> "X", expr |-> expr, step |-> step,
        start |-> adjusted.start, end |-> adjusted.end]

\* annotationQuery(options), up to the request
AnnotationQuery ==
    /\ anno.pc = "idle"
    /\ \E expr \in {"", "ALERTS"}, useValueForTime \in BOOLEAN,
          annStep \in {<<>>, <<AnnotationMinStep>>},
          start \in {0, MaxStart}, end \in {0, MaxStart} :
         LET query == annotationCreateQuery(expr, annStep, start, end)
         IN anno' =
              IF expr = ""
              THEN [pc |-> "resolved", useValueForTime |-> useValueForTime,
                    issued |-> <<>>, result |-> <<>>, events |-> <<>>]
              ELSE IF InvalidTimeRange(query.start, query.end)
              THEN [pc |-> "thrown", useValueForTime |-> useValueForTime,
                    issued |-> <<>>, error |-> InvalidTimeRangeError]
              ELSE [pc |-> "waiting", useValueForTime |-> useValueForTime,
                    query |-> query,
                    issued |-> <<timeSeriesRequest(query, query.start, query.end)>>]
    /\ UNCHANGED <<al, cq, req, suggestVars, queryVars>>

\* the response arrives: the then-handler builds the event list
AnnotationResponse ==
    /\ anno.pc = "waiting"
    /\ \E n \in 0..MaxSamples, k \in 0..MaxSeries :
       \E f \in [1..n -> Samples], cuts \in Cuts(n, k) :
         LET result == ResultOf(f, cuts)
         IN anno' = [pc |-> "resolved", useValueForTime |-> anno.useValueForTime,
                     issued |-> anno.issued, result |-> result,
                     events |-> annotationEvents(anno.useValueForTime, result, 1, <<>>)]
    /\ UNCHANGED <<al, cq, req, suggestVars, queryVars>>

\* the request fails: handleErrors throws, or returns the cancelled error, whose
\* missing data makes the then-handler throw a TypeError; the promise rejects
AnnotationRequestFails ==
    /\ anno.pc = "waiting"
    /\ \E err \in {e \in ErrObjects : e.data = JsUndef /\ e.message = JsUndef
                                      /\ e.statusText = JsUndef} :
         LET settled == settleFailure(err, anno.query)
         IN anno' = [pc |-> "rejected", useValueForTime |-> anno.useValueForTime,
                     issued |-> anno.issued,
                     error |-> IF settled.pc = "rejected" THEN settled.error
                               ELSE [message |-> "TypeError"]]
    /\ UNCHANGED <<al, cq, req, suggestVars, queryVars>>

NextAnnotation == AnnotationQuery \/ AnnotationResponse \/ AnnotationRequestFails

SpecAnnotation == Init /\ [][NextAnnotation]_vars

\* ------------------------------------------------------------------------
\* performSuggestQuery
\* ------------------------------------------------------------------------

\* time passes
Tick ==
    /\ now + TickMs <= MaxTicks * TickMs
    /\ now' = now + TickMs
    /\ UNCHANGED <<al, cq, req, anno, metricsNameCache, suggestInFlight, suggestLast, queryVars>>

\* performSuggestQuery(query, cache)
PerformSuggestQuery ==
    \E query \in SuggestQueries, cache \in BOOLEAN :
        LET r == performSuggestQuery(query, cache, metricsNameCache, now)
        IN /\ Len(suggestInFlight) + Len(r.requests) <= MaxInFlight
           /\ suggestInFlight' = suggestInFlight \o r.requests
           /\ suggestLast' = [kind |-> "call", query |-> query, cache |-> cache,
                              at |-> now, met |-> metricsNameCache,
                              answered |-> r.answered, answer |-> r.answer,
                              issued |-> r.requests]
           /\ UNCHANGED <<al, cq, req, anno, now, metricsNameCache, queryVars>>

\* a metadata request resolves: the then-handler stores the names and answers
SuggestResponse ==
    \E i \in 1..Len(suggestInFlight), names \in NameLists :
        /\ metricsNameCache' = suggestCache(names, now)
        /\ suggestInFlight' = RemoveAt(suggestInFlight, i)
        /\ suggestLast' = [kind |-> "response", query |-> suggestInFlight[i].query,
                           at |-> now, names |-> names,
                           answer |-> filterNames(names, suggestInFlight[i].query)]
        /\ UNCHANGED <<al, cq, req, anno, now, queryVars>>

\* a metadata request fails: the promise rejects, the cache is as it was
SuggestFailure ==
    \E i \in 1..Len(suggestInFlight) :
        /\ suggestInFlight' = RemoveAt(suggestInFlight, i)
        /\ suggestLast' = [kind |-> "failure", query |-> suggestInFlight[i].query,
                           at |-> now, met |-> metricsNameCache]
        /\ UNCHANGED <<al, cq, req, anno, now, metricsNameCache, queryVars>>

NextSuggest == Tick \/ PerformSuggestQuery \/ SuggestResponse \/ SuggestFailure

SpecSuggest == Init /\ [][NextSuggest]_vars

\* ------------------------------------------------------------------------
\* query
\* ------------------------------------------------------------------------

\* The outcomes of a request of query: a response with one or two series, a
\* cancellation, a 502
QueryResponses == {r \in Responses : r.result # <<>>}
QueryErrors ==
    {e \in ErrObjects : /\ e.data = JsUndef /\ e.statusText = JsUndef
                        /\ (e.cancelled => e.message = JsUndef /\ e.status = JsUndef)
                        /\ (~e.cancelled => e.message = JsStr("Bad Gateway")
                                            /\ e.status = JsNum(502))}

\* query(options, observer), up to its return
Query ==
    /\ q.pc = "idle"
    /\ \E n \in 0..MaxTargets, observer \in BOOLEAN, range \in QueryRanges :
       \E kinds \in [1..n -> TargetKinds] :
         LET targets == [i \in 1..n |-> kinds[i] @@ [refId |-> RefIdNames[i]]]
             start == range[1]
             end == range[2]
             prepared == prepareTargets(targets, 1, start, end,
                                        [queries |-> <<>>, activeTargets |-> <<>>])
             loop == issueQueries(prepared.queries, 1, end, <<>>)
             path == IF prepared.queries = <<>> THEN "none"
                     ELSE IF observerPath(targets, observer) THEN "observer"
                     ELSE IF loop.thrown THEN "none" ELSE "all"
             issued == IF prepared.queries = <<>> THEN <<>> ELSE loop.issued
         IN /\ q' = [pc |-> "called", targets |-> targets, observer |-> observer,
                     start |-> start, end |-> end,
                     queries |-> prepared.queries,
                     activeTargets |-> prepared.activeTargets,
                     path |-> path, issued |-> issued]
            /\ promise' = IF prepared.queries = <<>> THEN [pc |-> "resolved", data |-> <<>>]
                          ELSE IF loop.thrown
                          THEN [pc |-> "thrown", error |-> InvalidTimeRangeError]
                          ELSE IF path = "observer" THEN [pc |-> "resolved", data |-> <<>>]
                          ELSE [pc |-> "pending"]
            /\ slots' = [i \in 1..Len(issued) |-> [pc |-> "pending"]]
            /\ observed' = [i \in 1..Len(issued) |-> <<>>]
    /\ UNCHANGED <<al, cq, req, anno, suggestVars>>

\* The promise of request index settles as slot: the subscription of
\* runObserverQueries or the then-handler of $q.all runs
Settle(index, slot) ==
    /\ slots' = [slots EXCEPT ![index] = slot]
    /\ observed' = IF q.path = "observer"
                   THEN [observed EXCEPT
                           ![index] = @ \o observerCalls(slot, q.queries, q.activeTargets, index)]
                   ELSE observed
    /\ promise' = IF q.path = "all"
                  THEN allPromise(promise, [slots EXCEPT ![index] = slot],
                                  q.queries, q.activeTargets, index)
                  ELSE promise
    /\ UNCHANGED <<al, cq, req, anno, suggestVars, q>>

\* a request of query succeeds
QueryResponse ==
    \E index \in 1..Len(slots), response \in QueryResponses :
        /\ slots[index].pc = "pending"
        /\ Settle(index, settleSuccess(response))

\* a request of query fails: the catch handler runs handleErrors
QueryRequestFails ==
    \E index \in 1..Len(slots), err \in QueryErrors :
        /\ slots[index].pc = "pending"
        /\ Settle(index, settleFailure(err, q.queries[index]))

NextQuery == Query \/ QueryResponse \/ QueryRequestFails

SpecQuery == Init /\ [][NextQuery]_vars

\* ------------------------------------------------------------------------
\* Claims on alignRange and adjustInterval
\* ------------------------------------------------------------------------

\* x aligned to a: a is the largest multiple of step not exceeding x
LargestMultiple(a, x, step) == a % step = 0 /\ a <= x /\ x - a < step

\* C1: for all integer start, end >= 0 and step >= 1, the start and end that
\* alignRange returns are each a multiple of step, each at most the original
\* value, and each the largest such multiple (original - aligned < step);
\* this holds of a direct call and of the call createQuery makes (whose step
\* is a whole number of seconds).
C1_AlignedLargestMultiple ==
    /\ al.called =>
         /\ LargestMultiple(al.aligned.start, al.start, al.step)
         /\ LargestMultiple(al.aligned.end, al.end, al.step)
    /\ (cq.called /\ cq.start >= 0 /\ cq.end >= 0 /\ cq.step % MsPerSec = 0) =>
         /\ LargestMultiple(cq.aligned.start, cq.start * MsPerSec, cq.step)
         /\ LargestMultiple(cq.aligned.end, cq.end * MsPerSec, cq.step)

\* C1 witness: a call whose start and end are both moved down to different multiples
C1_Witness ==
    /\ al.called
    /\ al.aligned.start < al.start
    /\ al.aligned.end < al.end
    /\ al.aligned.start < al.aligned.end
    /\ al.step > 1

\* C2: for every interval >= 0, minInterval >= 0, range >= 0 and
\* intervalFactor >= 1 the step adjustInterval returns never yields more than
\* 11000 data points over the range: range / step <= 11000.
C2_PointCeiling ==
    (cq.called /\ cq.end - cq.start >= 0) =>
        (cq.end - cq.start) * MsPerSec <= MaxPoints * cq.step

\* ------------------------------------------------------------------------
\* Claims on handleErrors
\* ------------------------------------------------------------------------

\* the request of req failed with an error that is (is not) cancelled
FailedCancelled == req.pc # "idle" /\ req.pc # "pending" /\ req.pc # "thrown"
                   /\ req.met = "error" /\ req.err.t = "object" /\ req.err.cancelled
FailedNotCancelled == req.pc # "idle" /\ req.pc # "pending" /\ req.pc # "thrown"
                      /\ req.met = "error" /\ ~(req.err.t = "object" /\ req.err.cancelled)

\* C4: a failed request whose error has cancelled set resolves with that
\* error and nothing is thrown; every other failure rejects with an error
\* object that carries a message, the status and statusText of the original
\* error and the refId of the query that failed, and never resolves.
C4_ErrorsNormalized ==
    /\ FailedCancelled => (req.pc = "resolved" /\ req.value = req.err)
    /\ FailedNotCancelled =>
         /\ req.pc = "rejected"
         /\ DOMAIN req.error = {"message", "refId", "status", "statusText"}
         /\ req.error.message \in STRING
         /\ req.error.refId = req.query.refId
         /\ req.error.status = (IF req.err.t = "object" THEN req.err.status ELSE JsUndef)
         /\ req.error.statusText =
                (IF req.err.t = "object" THEN req.err.statusText ELSE JsUndef)

\* C4 witness: an instant query's request failed with a 502 that is not
\* cancelled, and the promise rejected with the query's refId
C4_Witness ==
    /\ FailedNotCancelled
    /\ req.pc = "rejected"
    /\ req.err.t = "object"
    /\ req.err.status = JsNum(502)
    /\ req.error.status = JsNum(502)
    /\ req.error.refId = "A_instant"

\* the messages an error offers: its data when a string, its data's error,
\* its message, itself when a string (a missing or empty one offers nothing)
OfferedMessages(err) ==
    IF err.t = "string" THEN (IF err.s # "" THEN {err.s} ELSE {})
    ELSE (IF err.data.t = "string" /\ err.data.s # "" THEN {err.data.s} ELSE {})
         \cup (IF err.data.t = "object" /\ Truthy(err.data.error)
               THEN {safeStringifyValue(err.data.error)} ELSE {})
         \cup (IF Truthy(err.message) THEN {err.message.s} ELSE {})

\* C5: the generic message is used only for unknown errors, those that
\* offer no message of their own; whenever the error offers one, the thrown
\* message is taken from it.
C5_GenericOnlyForUnknown ==
    FailedNotCancelled =>
        /\ req.error.message = GenericMessage => OfferedMessages(req.err) = {}
        /\ OfferedMessages(req.err) # {} => req.error.message \in OfferedMessages(req.err)

\* ------------------------------------------------------------------------
\* Claims on annotationQuery
\* ------------------------------------------------------------------------

\* the floored sample values of a series, sample by sample
Floored(values) == [j \in 1..Len(values) |-> MathFloor(parseFloat(values[j][2]))]

\* the samples of a series that are the first with their floored value
FirstOccurrences(values) ==
    {j \in 1..Len(values) : \A h \in 1..(j - 1) : Floored(values)[h] # Floored(values)[j]}

\* the events of eventList rendered from metric i, in order
RECURSIVE EventsOf(_, _)
EventsOf(events, i) ==
    IF events = <<>> THEN <<>>
    ELSE IF Head(events).metric = i
         THEN <<Head(events)>> \o EventsOf(Tail(events), i)
         ELSE EventsOf(Tail(events), i)

\* C3: with annotation.useValueForTime set, for every series of the response
\* no two events emitted from that series have the same time, and each
\* distinct floored sample value of the series produces exactly one event,
\* in the order of the first occurrences.
C3_AnnotationDedup ==
    (anno.pc = "resolved" /\ anno.useValueForTime) =>
        \A i \in 1..Len(anno.result) :
            LET ev == EventsOf(anno.events, i)
                values == anno.result[i]
            IN /\ \A a, b \in 1..Len(ev) : a # b => ev[a].time # ev[b].time
               /\ Len(ev) = Cardinality(FirstOccurrences(values))
               /\ \A a \in 1..Len(ev) :
                    \E j \in FirstOccurrences(values) :
                        /\ ev[a].time = Floored(values)[j]
                        /\ Cardinality({h \in FirstOccurrences(values) : h < j}) = a - 1

\* C3 witness: a series whose samples repeat a floored value (1 and 1.5)
\* after a different one, and which yields fewer events than samples
C3_Witness ==
    /\ anno.pc = "resolved"
    /\ anno.useValueForTime
    /\ \E i \in 1..Len(anno.result) :
         /\ Len(anno.result[i]) >= 3
         /\ \E j, h \in 1..Len(anno.result[i]) :
              /\ j < h
              /\ anno.result[i][j][2] = "1"
              /\ anno.result[i][h][2] = "1.5"
         /\ Len(EventsOf(anno.events, i)) = 2

\* ------------------------------------------------------------------------
\* Claims on performSuggestQuery
\* ------------------------------------------------------------------------

\* the elements of a sequence
Range(seq) == {seq[i] : i \in DOMAIN seq}

\* C7: after a successful fetch at time t the cache holds that response's
\* names with expiry t + 60 s; a call with cache = true made while
\* now < expiry issues no request and answers from the cached names; a call
\* with cache = false, with no cache yet, or at now >= expiry issues exactly
\* one request, and its response replaces the cache (a failure leaves it).
C7_SuggestCache ==
    /\ suggestLast.kind = "call" =>
         IF suggestLast.cache /\ suggestLast.met.set
            /\ suggestLast.at < suggestLast.met.expire
         THEN /\ suggestLast.issued = <<>>
              /\ suggestLast.answered
              /\ Len(suggestLast.answer) <= Len(suggestLast.met.data)
              /\ \A name \in {MetricUp, MetricCpu} :
                    name \in Range(suggestLast.answer) <=>
                        /\ name \in Range(suggestLast.met.data)
                        /\ indexOf(name, suggestLast.query) # 1
              /\ metricsNameCache = suggestLast.met
         ELSE /\ Len(suggestLast.issued) = 1
              /\ ~suggestLast.answered
              /\ metricsNameCache = suggestLast.met
    /\ suggestLast.kind = "response" =>
         metricsNameCache = [set |-> TRUE, data |-> suggestLast.names,
                             expire |-> suggestLast.at + 60 * 1000]
    /\ suggestLast.kind = "failure" => metricsNameCache = suggestLast.met

\* C7 witness: a call answered from a cache that was filled one tick earlier
\* and holds names
C7_Witness ==
    /\ suggestLast.kind = "call"
    /\ suggestLast.answered
    /\ suggestLast.answer # <<>>
    /\ suggestLast.met.set
    /\ suggestLast.at > 0
    /\ suggestLast.at < suggestLast.met.expire

\* ------------------------------------------------------------------------
\* Claims on query
\* ------------------------------------------------------------------------

\* a target that is visible and has an expression
Visible(target) == target.expr # "" /\ ~target.hide

\* the active targets a target contributes
Contribution(target) ==
    IF ~Visible(target) THEN 0 ELSE IF target.context = "explore" THEN 2 ELSE 1

\* the active targets the first n targets contribute
RECURSIVE ContributionUpTo(_, _)
ContributionUpTo(targets, n) ==
    IF n = 0 THEN 0 ELSE ContributionUpTo(targets, n - 1) + Contribution(targets[n])

\* a range query of the call whose aligned start is after its aligned end
InvertedRangeQuery ==
    \E i \in 1..Len(q.queries) : ~q.queries[i].instant /\ q.queries[i].start > q.queries[i].end

\* C6: when no target of options.targets is both visible and has a non-empty
\* expr, query resolves to {data: []} and issues no request, with or without
\* an observer.
C6_NoValidTargets ==
    (q.pc = "called" /\ \A j \in 1..Len(q.targets) : ~Visible(q.targets[j])) =>
        /\ promise = [pc |-> "resolved", data |-> <<>>]
        /\ q.issued = <<>>
        /\ slots = <<>>

\* C6 witness: a call with an observer and two targets, one hidden, one
\* without expr
C6_Witness ==
    /\ q.pc = "called"
    /\ q.observer
    /\ Len(q.targets) = 2
    /\ q.targets[1].hide
    /\ q.targets[2].expr = ""
    /\ promise.pc = "resolved"

\* The fan-out of prepareTargets: queries and activeTargets have the same
\* length, every visible Explore target contributes its instant clone (refId
\* and requestId suffixed '_instant') immediately before itself, every other
\* visible target contributes itself, and queries[i] is built from
\* activeTargets[i].
FanOut ==
    /\ Len(q.queries) = Len(q.activeTargets)
    /\ Len(q.activeTargets) = ContributionUpTo(q.targets, Len(q.targets))
    /\ \A j \in 1..Len(q.targets) :
         LET target == q.targets[j]
             at == ContributionUpTo(q.targets, j - 1)
         IN /\ (Visible(target) /\ target.context = "explore") =>
                 /\ q.activeTargets[at + 1].refId = target.refId \o "_instant"
                 /\ q.activeTargets[at + 1].requestId = target.requestId \o "_instant"
                 /\ q.activeTargets[at + 1].instant
                 /\ q.activeTargets[at + 2].refId = target.refId
                 /\ ~q.activeTargets[at + 2].instant
            /\ (Visible(target) /\ target.context # "explore") =>
                 q.activeTargets[at + 1] = target
    /\ \A i \in 1..Len(q.queries) :
         /\ q.queries[i].refId = q.activeTargets[i].refId
         /\ q.queries[i].instant = q.activeTargets[i].instant
         /\ q.queries[i].expr = q.activeTargets[i].expr
         /\ q.queries[i].requestId = PanelId \o q.activeTargets[i].refId

\* one request per active target, in the order of the queries
OneRequestPerTarget ==
    /\ Len(q.issued) = Len(q.activeTargets)
    /\ \A i \in 1..Len(q.issued) :
         /\ q.issued[i].requestId = q.queries[i].requestId
         /\ q.issued[i].url = (IF q.queries[i].instant
                               THEN "/api/v1/query" ELSE "/api/v1/query_range")

CancelledAt(i) == slots[i].pc = "resolved" /\ "cancelled" \in DOMAIN slots[i].value

\* the series a response to request i is transformed to: those of its
\* result, with the query and the target at index i
SeriesOfResponse(i) ==
    [k \in 1..Len(slots[i].value.result) |->
        [series |-> slots[i].value.result[k],
         refId |-> q.activeTargets[i].refId,
         format |-> q.activeTargets[i].format,
         valueWithRefId |-> q.activeTargets[i].valueWithRefId,
         query |-> q.queries[i].expr,
         step |-> q.queries[i].step,
         start |-> q.queries[i].start,
         end |-> q.queries[i].end,
         responseListLength |-> Len(q.queries)]]

\* the series of the responses 1..n that are not cancelled, in that order
RECURSIVE SeriesUpTo(_)
SeriesUpTo(n) ==
    IF n = 0 THEN <<>>
    ELSE SeriesUpTo(n - 1) \o (IF CancelledAt(n) THEN <<>> ELSE SeriesOfResponse(n))

\* query took the non-observer path and issued every request: no observer or
\* a target outside Explore, some valid target, no inverted range query
OnAllPath ==
    /\ q.pc = "called"
    /\ ~(q.observer /\ \A j \in 1..Len(q.targets) : q.targets[j].context = "explore")
    /\ \E j \in 1..Len(q.targets) : Visible(q.targets[j])
    /\ ~InvertedRangeQuery

\* C9: on the non-observer path, whatever order the requests complete in, the
\* resolved data is the concatenation, in the order of the queries, of the
\* series of the responses that are not cancelled, each transformed with the
\* query and target at its own index; the promise resolves only after every
\* request has settled successfully, and one thrown error rejects the query.
C9_AllInTargetOrder ==
    OnAllPath =>
        /\ Len(slots) = Len(q.queries)
        /\ promise.pc \in {"pending", "resolved", "rejected"}
        /\ promise.pc = "resolved" <=> \A i \in 1..Len(slots) : slots[i].pc = "resolved"
        /\ promise.pc = "resolved" => promise.data = SeriesUpTo(Len(slots))
        /\ promise.pc = "rejected" <=> \E i \in 1..Len(slots) : slots[i].pc = "rejected"
        /\ promise.pc = "rejected" =>
              \E i \in 1..Len(slots) :
                  slots[i].pc = "rejected" /\ promise.error = slots[i].error

\* C9 witness: three requests, the first cancelled, the others answered with
\* a different number of series, and the query resolved
C9_Witness ==
    /\ OnAllPath
    /\ Len(slots) = 3
    /\ promise.pc = "resolved"
    /\ CancelledAt(1)
    /\ Len(promise.data) = 3
    /\ promise.data[1].refId = q.activeTargets[2].refId
    /\ promise.data[2].refId = q.activeTargets[3].refId
    /\ promise.data[3].refId = q.activeTargets[3].refId

\* the observer path is taken: an observer is given, every target of
\* options.targets is in Explore context, and some target is valid
OnObserverPath ==
    /\ q.pc = "called"
    /\ q.observer
    /\ \A j \in 1..Len(q.targets) : q.targets[j].context = "explore"
    /\ \E j \in 1..Len(q.targets) : Visible(q.targets[j])

\* per issued request the observer is called at most once, exactly once when
\* the response has arrived and is not cancelled, with the key of the target
\* and the state of the kind of query
ObserverCalledOncePerResponse ==
    /\ Len(observed) = Len(q.issued)
    /\ \A i \in 1..Len(q.issued) :
         /\ Len(observed[i]) <= 1
         /\ Len(observed[i]) = 1 <=> (slots[i].pc = "resolved" /\ ~CancelledAt(i))
         /\ Len(observed[i]) = 1 =>
              /\ observed[i][1].key = "prometheus-" \o q.activeTargets[i].refId
              /\ observed[i][1].state = (IF q.queries[i].instant THEN "Loading" ELSE "Done")
              /\ observed[i][1].delta = SeriesOfResponse(i)

TimeSeriesCall == req.pc # "idle" /\ "start" \in DOMAIN req

\* ... on the query createQuery built (it carries query.start and query.end)
CreatedCall == TimeSeriesCall /\ "start" \in DOMAIN req.query

\* the call threw {message: 'Invalid time range'} and issued no request
ThrewInvalidTimeRange ==
    /\ req.pc = "thrown"
    /\ req.error = [message |-> "Invalid time range"]
    /\ req.issued = <<>>

\* the call issued its one query_range request, with the start and end given
IssuedRangeRequest ==
    /\ req.pc = "pending"
    /\ Len(req.issued) = 1
    /\ req.issued[1].url = "/api/v1/query_range"
    /\ req.issued[1].start = req.start
    /\ req.issued[1].end = req.end
    /\ req.issued[1].step = req.query.step

\* C11: performTimeSeriesQuery throws {message: 'Invalid time range'} and
\* issues no request exactly when start > end (otherwise it issues its one
\* request); for every start <= end and every step >= 1, alignRange gives an
\* aligned start <= the aligned end; the step createQuery computes is at
\* least 1 s, so from start <= end it builds a query with start <= end, and
\* performTimeSeriesQuery on that query does not throw 'Invalid time range'.
C11_RangeValidity ==
    /\ TimeSeriesCall =>
         /\ req.start > req.end => ThrewInvalidTimeRange
         /\ req.start <= req.end => IssuedRangeRequest
    /\ (al # NoCall /\ al.start <= al.end /\ al.step >= 1) =>
         al.aligned.start <= al.aligned.end
    /\ (cq # NoCall /\ cq.start <= cq.end) =>
         /\ cq.step >= 1 * MsPerSec
         /\ cq.aligned.start <= cq.aligned.end
         /\ CreatedCall => IssuedRangeRequest

\* C11 witness: createQuery was given start < end, alignment moved both onto
\* the same multiple of the step, and performTimeSeriesQuery on the built
\* query issued its request
C11_Witness ==
    /\ cq # NoCall
    /\ cq.start < cq.end
    /\ cq.aligned.start # cq.start * MsPerSec
    /\ cq.aligned.start = cq.aligned.end
    /\ CreatedCall
    /\ IssuedRangeRequest

====
